---- MODULE Spec2Model ----
(***************************************************************************)
(* res_kafka: the Asterisk module that reads clusters, producers,          *)
(* consumers and topics from kafka.conf through sorcery and walks them     *)
(* with librdkafka (load_module -> process_all_clusters ->                 *)
(* process_cluster -> process_producer -> process_producer_topic).         *)
(*                                                                         *)
(* librdkafka and sorcery are external: each of their calls that can fail  *)
(* (rd_kafka_conf_new, rd_kafka_conf_set, rd_kafka_new, rd_kafka_topic_new,*)
(* ao2_alloc, ast_sorcery_retrieve_by_fields, ...) is an input chosen by   *)
(* the environment at the call.                                            *)
(***************************************************************************)
EXTENDS Integers, FiniteSets, Sequences, TLC

\* ------------------------------------------------------------------ bounds
\* how many times the host loads the module (load, unload, load, ...)
MaxLoads == 2
\* how many times the host reloads the module
MaxReloads == 1

\* ------------------------------------------------------- configuration ids
ClusterIds == {"C1", "C2"}
ProducerIds == {"P1", "P2"}
ConsumerIds == {"K1"}
TopicIds == {"T1", "T2"}

\* a cluster id that no cluster section of kafka.conf defines
NoSuchCluster == "C9"

\* a producer id and a consumer id that no section of kafka.conf defines
NoSuchProducer == "P9"
NoSuchConsumer == "K9"

\* struct sorcery_kafka_topic: producer_id and consumer_id, "" by default
TopicRecs ==
    { [producer |-> "P1", consumer |-> ""],
      [producer |-> "P2", consumer |-> ""],
      [producer |-> "",   consumer |-> "K1"],
      [producer |-> NoSuchProducer, consumer |-> NoSuchConsumer] }

\* the topic sections of kafka.conf: any subset of the topic ids, T1 a topic
\* of producer P1
TopicMaps ==
    { f \in UNION { [S -> TopicRecs] : S \in SUBSET TopicIds } :
        "T1" \in DOMAIN f => f["T1"].producer = "P1" }

\* the contents of kafka.conf: producer P1 is on cluster C1, producer P2 on
\* C1, on C2 or on a cluster that does not exist
Configs ==
    [ clusters : {ClusterIds},
      producer : { f \in [ProducerIds -> ClusterIds \cup {NoSuchCluster}] :
                     f["P1"] = "C1" },
      consumer : [ConsumerIds -> {"C1"}],
      topic    : TopicMaps ]

\* kafka.conf after topic sections were deleted from it
Edits(file) ==
    { [file EXCEPT !.topic = [t \in S |-> file.topic[t]]] :
        S \in SUBSET DOMAIN file.topic }

EmptyConfig ==
    [ clusters |-> {},
      producer |-> [p \in {} |-> "C1"],
      consumer |-> [k \in {} |-> "C1"],
      topic    |-> [t \in {} |-> [producer |-> "", consumer |-> ""]] ]

\* ------------------------------------------------------------------- state
VARIABLES
    cfg,            \* kafka.conf as sorcery read it last (ast_sorcery_load / _reload)
    phase,          \* "unloaded" | "loading" | "loaded" | "crashed"
    kafka_sorcery,  \* the global: TRUE when not NULL
    mod,            \* sorcery references, observer and CLI registrations
    pc,             \* position inside process_all_clusters
    todo,           \* iterators: clusters, producers, consumers, topics left
    cur,            \* current cluster, sorcery producer, kafka_producer object
    w,              \* ao2 objects of the module and librdkafka objects
    hist,           \* call counters and last return values
    call            \* a function of the module called on its own: arguments, result

vars == <<cfg, phase, kafka_sorcery, mod, pc, todo, cur, w, hist, call>>

\* ------------------------------------------------------------ ao2 objects
\* an ao2 object is named by the pass that allocated it and the configuration
\* object it was allocated for; NULL is the pointer that names none
NULL == [pass |-> 0, name |-> ""]

ObjId(n, name) == [pass |-> n, name |-> name]

\* f without the key k
Without(f, k) == [x \in (DOMAIN f) \ {k} |-> f[x]]

\* f with the key k bound to v
With(f, k, v) == [x \in (DOMAIN f) \cup {k} |-> IF x = k THEN v ELSE f[x]]

\* no ao2 object, no librdkafka object, no call made yet
EmptyWorld ==
    [ producers  |-> [x \in {} |-> 0],  \* live struct kafka_producer
      clients    |-> {},                \* live rd_kafka_t
      topics     |-> [x \in {} |-> 0],  \* live struct kafka_producer_topic
      rktopics   |-> {},                \* live rd_kafka_topic_t
      confs      |-> 0,                 \* live rd_kafka_conf_t the module owns
      \* the library calls of the current pass of process_all_clusters
      attempts   |-> 0,                 \* rd_kafka_new calls
      creates    |-> 0,                 \* rd_kafka_new calls that succeeded
      destroys   |-> 0,                 \* rd_kafka_destroy calls
      nullDestroys |-> 0,               \* rd_kafka_destroy(NULL) calls
      produces   |-> 0,                 \* rd_kafka_produce calls
      consumerTopics |-> 0,             \* process_consumer_topic calls
      nullProduce |-> FALSE ]           \* rd_kafka_produce through a NULL record

\* the world at the start of a pass: the objects stay, the calls are counted anew
StartPass(w0) ==
    [w0 EXCEPT !.attempts = 0, !.creates = 0, !.destroys = 0,
               !.nullDestroys = 0, !.produces = 0, !.nullProduce = FALSE,
               !.consumerTopics = 0]

\* kafka_producer_destructor without its test of producer->rd_kafka
kafka_producer_destructor_NoNullTest(w0, id) ==
    [w0 EXCEPT !.clients = {c \in @ : c.id # id},
               !.destroys = @ + 1,
               !.nullDestroys = IF w0.producers[id].rd_kafka THEN @ ELSE @ + 1]

\* kafka_producer_destructor: rd_kafka_destroy on the client when there is one
\* (the topic handles made from it are not looked at)
kafka_producer_destructor(w0, id) ==
    IF w0.producers[id].rd_kafka
    THEN [w0 EXCEPT !.clients = {c \in @ : c.id # id},
                    !.destroys = @ + 1]
    ELSE w0

\* ao2_ref(producer, -1): the destructor runs when the count reaches zero
producer_unref(w0, id) ==
    IF w0.producers[id].ref = 1
    THEN LET d == kafka_producer_destructor(w0, id)
         IN  [d EXCEPT !.producers = Without(@, id)]
    ELSE [w0 EXCEPT !.producers[id].ref = @ - 1]

\* outcomes of the library calls build_rdkafka_cluster_config makes:
\* 0 none fails, 1 rd_kafka_conf_new returns NULL, 2..6 the rd_kafka_conf_set
\* of brokers, security protocol, SASL mechanism, username, password fails
ConfOutcomes == 0..6

\* build_rdkafka_cluster_config returning NULL after a failed rd_kafka_conf_set
\* without rd_kafka_conf_destroy
build_rdkafka_cluster_config_NoDestroy(w0, c, confFail) ==
    LET made == [w0 EXCEPT !.confs = @ + 1]
    IN  IF confFail = 0
        THEN [w |-> made, config |-> TRUE]
        ELSE IF confFail = 1
        THEN [w |-> w0, config |-> FALSE]
        ELSE [w |-> made, config |-> FALSE]

\* build_rdkafka_cluster_config: a configuration the caller owns, or NULL with
\* the configuration object already destroyed
build_rdkafka_cluster_config(w0, c, confFail) ==
    LET made == [w0 EXCEPT !.confs = @ + 1]
    IN  IF confFail = 0
        THEN [w |-> made, config |-> TRUE]
        ELSE IF confFail = 1
        THEN [w |-> w0, config |-> FALSE]
        ELSE \* a failed rd_kafka_conf_set: rd_kafka_conf_destroy, return NULL
             [w |-> [made EXCEPT !.confs = @ - 1], config |-> FALSE]

\* the values the documentation lists for security_protocol and sasl_mechanism
SecurityProtocols == {"plaintext", "ssl", "sasl_plaintext", "sasl_ssl"}

SaslMechanisms ==
    {"PLAIN", "GSSAPI", "SCRAM-SHA-256", "SCRAM-SHA-512", "OAUTHBEARER"}

\* struct sorcery_kafka_cluster, the string fields build_rdkafka_cluster_config
\* reads: what kafka.conf gave them, a listed value or another one ("localhost",
\* "" are the defaults of brokers and of sasl_username, sasl_password)
ClusterRecs ==
    [ brokers           : {"", "localhost"},
      security_protocol : SecurityProtocols \cup {"tls"},
      sasl_mechanism    : SaslMechanisms \cup {"NTLM"},
      sasl_username     : {""},
      sasl_password     : {""} ]

\* the property names of the five rd_kafka_conf_set calls, in call order
ConfKeys ==
    << "metadata.broker.list", "security.protocol", "sasl.mechanism",
       "sasl.username", "sasl.password" >>

\* the value the i-th rd_kafka_conf_set call is given: the field as it is
ConfValue(cl, i) ==
    CASE i = 1 -> cl.brokers
      [] i = 2 -> cl.security_protocol
      [] i = 3 -> cl.sasl_mechanism
      [] i = 4 -> cl.sasl_username
      [] OTHER -> cl.sasl_password

\* what the LOG_ERROR line of each outcome in ConfOutcomes says could not be
\* created or set
ConfErrors ==
    << "configuration object", "bootstrap brokers", "security protocol",
       "SASL mechanism", "SASL username", "SASL password" >>

\* the i-th field holds a broker list that is not empty, a listed protocol, a
\* listed mechanism, any user name, any password
Listed(cl, i) ==
    CASE i = 1 -> cl.brokers # ""
      [] i = 2 -> cl.security_protocol \in SecurityProtocols
      [] i = 3 -> cl.sasl_mechanism \in SaslMechanisms
      [] OTHER -> TRUE

\* librdkafka during one build_rdkafka_cluster_config: rd_kafka_conf_new gives
\* an object or NULL, each rd_kafka_conf_set is RD_KAFKA_CONF_OK or not.  The
\* library takes every listed value; whether it takes another one is its own
\* decision.  (A call that is not reached is listed as succeeding.)
LibConfs(cl) ==
    { l \in [conf_new : BOOLEAN, set : [1..5 -> BOOLEAN]] :
        /\ ~l.conf_new => \A i \in 1..5 : l.set[i]
        /\ \A i \in 1..5 : Listed(cl, i) => l.set[i]
        /\ \A i, j \in 1..5 : (i < j /\ ~l.set[i]) => l.set[j] }

\* where build_rdkafka_cluster_config stops with this library: in ConfOutcomes
ConfOutcome(l) ==
    IF ~l.conf_new THEN 1
    ELSE IF \A i \in 1..5 : l.set[i] THEN 0
    ELSE 1 + CHOOSE i \in 1..5 : ~l.set[i]

\* the (name, value) pairs build_rdkafka_cluster_config hands to
\* rd_kafka_conf_set: every field up to the first one the library refuses
ConfPassed(cl, l) ==
    { <<ConfKeys[i], ConfValue(cl, i)>> :
        i \in { j \in 1..5 : l.conf_new /\ \A h \in 1..(j - 1) : l.set[h] } }

\* the environment of one new_kafka_producer call: the outcome of building the
\* configuration, of ao2_alloc and of rd_kafka_new (a call that is not
\* reached has no outcome: it is listed as succeeding)
ProducerEnvs ==
    { e \in [conf : ConfOutcomes, alloc : BOOLEAN, new : BOOLEAN] :
        /\ e.conf # 0 => e.alloc
        /\ ~e.alloc => e.new }

\* new_kafka_producer: the ao2 object holding a fresh rd_kafka_t, or NULL
new_kafka_producer(w0, id, c, p, e) ==
    LET b == build_rdkafka_cluster_config(w0, c, e.conf)
        obj(rk) == [rd_kafka |-> rk, ref |-> 1, cluster |-> c, producer |-> p]
    IN  IF ~b.config
        THEN [w |-> b.w, producer |-> NULL]
        ELSE IF ~e.alloc
        THEN \* ao2_alloc failed: rd_kafka_conf_destroy, ao2_cleanup(NULL)
             [w |-> [b.w EXCEPT !.confs = @ - 1], producer |-> NULL]
        ELSE IF ~e.new
        THEN \* rd_kafka_new failed: rd_kafka_conf_destroy, ao2_cleanup(producer)
             LET a == [b.w EXCEPT !.producers = With(@, id, obj(FALSE)),
                                  !.attempts = @ + 1,
                                  !.confs = @ - 1]
             IN  [w |-> producer_unref(a, id), producer |-> NULL]
        ELSE \* rd_kafka_new took the configuration over
             [w |-> [b.w EXCEPT !.producers = With(@, id, obj(TRUE)),
                                !.clients = @ \cup {[id |-> id, cluster |-> c,
                                                     role |-> "producer"]},
                                !.attempts = @ + 1,
                                !.creates = @ + 1,
                                !.confs = @ - 1],
              producer |-> id]

\* kafka_producer_topic_destructor: destroy the topic handle when there is one
kafka_producer_topic_destructor(w0, id) ==
    IF w0.topics[id].rd_kafka_topic
    THEN [w0 EXCEPT !.rktopics = {h \in @ : h.id # id}]
    ELSE w0

\* ao2_ref(topic, -1) on a struct kafka_producer_topic
topic_unref(w0, id) ==
    IF w0.topics[id].ref = 1
    THEN LET d == kafka_producer_topic_destructor(w0, id)
         IN  [d EXCEPT !.topics = Without(@, id)]
    ELSE [w0 EXCEPT !.topics[id].ref = @ - 1]

\* the time rd_kafka_flush is given, in milliseconds
FlushTimeoutMs == 10000

\* what rd_kafka_produce and rd_kafka_flush return in process_producer_topic:
\* produce 0 or not, flush RD_KAFKA_RESP_ERR_NO_ERROR (everything was
\* delivered in time) or not
FlushEnvs == [produce : BOOLEAN, flush : BOOLEAN]

\* the LOG_ERROR lines of process_producer_topic: one when rd_kafka_produce
\* did not return 0, one when rd_kafka_flush returned
\* RD_KAFKA_RESP_ERR_NO_ERROR
process_producer_topic_logs(f) ==
    (IF f.produce THEN {} ELSE {"Unable to produce message"})
        \cup (IF f.flush THEN {"got error"} ELSE {})

\* the environment of one new_kafka_producer_topic call: ao2_alloc,
\* rd_kafka_topic_conf_new and rd_kafka_topic_new succeed or fail
TopicEnvs ==
    { e \in [alloc : BOOLEAN, conf : BOOLEAN, new : BOOLEAN] :
        /\ ~e.alloc => e.conf
        /\ ~e.conf => e.new }

\* new_kafka_producer_topic taking a reference to the producer for the topic
\* and keeping it when rd_kafka_topic_new fails
new_kafka_producer_topic_KeepsRef(w0, id, kp, t, e) ==
    LET obj(h, n) == [rd_kafka_topic |-> h, ref |-> n, topic |-> t, rk |-> kp]
        held == [w0 EXCEPT !.producers[kp].ref = @ + 1]
    IN  IF ~e.alloc \/ ~e.conf
        THEN [w |-> w0, topic |-> NULL]
        ELSE IF ~e.new
        THEN [w |-> held, topic |-> NULL]
        ELSE [w |-> [held EXCEPT !.topics = With(@, id, obj(TRUE, 2)),
                                 !.rktopics = @ \cup {[id |-> id, rk |-> kp,
                                                       topic |-> t]}],
              topic |-> id]

\* new_kafka_producer_topic releasing the record once, not twice, when
\* rd_kafka_topic_new fails
new_kafka_producer_topic_OneRelease(w0, id, kp, t, e) ==
    LET obj(h, n) == [rd_kafka_topic |-> h, ref |-> n, topic |-> t, rk |-> kp]
    IN  IF ~e.alloc
        THEN [w |-> w0, topic |-> NULL]
        ELSE IF ~e.conf
        THEN LET a == [w0 EXCEPT !.topics = With(@, id, obj(FALSE, 1))]
             IN  [w |-> topic_unref(a, id), topic |-> NULL]
        ELSE IF ~e.new
        THEN LET a == [w0 EXCEPT !.topics = With(@, id, obj(FALSE, 2))]
             IN  [w |-> topic_unref(a, id), topic |-> NULL]
        ELSE [w |-> [w0 EXCEPT !.topics = With(@, id, obj(TRUE, 2)),
                               !.rktopics = @ \cup {[id |-> id, rk |-> kp,
                                                     topic |-> t]}],
              topic |-> id]

\* new_kafka_producer_topic: the ao2 object holding a fresh rd_kafka_topic_t
\* (with the extra reference taken for the callback context), or NULL
new_kafka_producer_topic(w0, id, kp, t, e) ==
    LET obj(h, n) == [rd_kafka_topic |-> h, ref |-> n, topic |-> t, rk |-> kp]
    IN  IF ~e.alloc
        THEN [w |-> w0, topic |-> NULL]
        ELSE IF ~e.conf
        THEN \* no topic configuration: ao2_ref(topic, -1)
             LET a == [w0 EXCEPT !.topics = With(@, id, obj(FALSE, 1))]
             IN  [w |-> topic_unref(a, id), topic |-> NULL]
        ELSE IF ~e.new
        THEN \* rd_kafka_topic_new failed after ao2_ref(topic, +1): two releases
             LET a == [w0 EXCEPT !.topics = With(@, id, obj(FALSE, 2))]
             IN  [w |-> topic_unref(topic_unref(a, id), id), topic |-> NULL]
        ELSE [w |-> [w0 EXCEPT !.topics = With(@, id, obj(TRUE, 2)),
                               !.rktopics = @ \cup {[id |-> id, rk |-> kp,
                                                     topic |-> t]}],
              topic |-> id]

\* process_producer_topic: bind the topic, produce the test message, flush, drop
\* the local reference.  With no topic record the read of
\* topic->rd_kafka_topic is through a NULL pointer: ub tells that it happened.
\* flush_ms: the time given to rd_kafka_flush; what the calls return changes
\* only what is logged (process_producer_topic_logs)
process_producer_topic(w0, id, kp, t, e) ==
    LET n == new_kafka_producer_topic(w0, id, kp, t, e)
    IN  IF n.topic = NULL
        THEN [w |-> n.w, ub |-> TRUE, flush_ms |-> FlushTimeoutMs]
        ELSE [w |-> topic_unref([n.w EXCEPT !.produces = @ + 1], n.topic),
              ub |-> FALSE, flush_ms |-> FlushTimeoutMs]

\* no function was called on its own
NoCall == [op |-> "none"]

\* ------------------------------------------------------------------ Init
Init ==
    /\ cfg = EmptyConfig
    /\ phase = "unloaded"
    /\ kafka_sorcery = FALSE
    /\ mod = [sorceryRefs |-> 0, observer |-> FALSE, cli |-> FALSE]
    /\ pc = "idle"
    /\ todo = [clusters |-> {}, producers |-> {}, consumers |-> {}, topics |-> {}]
    /\ cur = [cluster |-> "", producer |-> "", kp |-> NULL]
    /\ w = EmptyWorld
    /\ hist = [loads |-> 0, reloads |-> 0, passes |-> 0, declined |-> 0,
               ret |-> 0, cret |-> 0,
               lastCfg |-> EmptyConfig, same |-> FALSE,
               reloadFailed |-> FALSE, cause |-> ""]
    /\ call = NoCall

\* ------------------------------------------------------------ load_module
\* where load_module gives up: 0 nowhere, 1 ast_sorcery_open, 2..4 the
\* registration of cluster, topic, producer, 5 ast_sorcery_observer_add,
\* 6 the registration of consumer
LoadOutcomes == 0..6

\* what the load_module that gave up at failAt could not do
DeclineCause(failAt) ==
    CASE failAt = 0 -> ""
      [] failAt = 1 -> "ast_sorcery_open"
      [] failAt = 5 -> "ast_sorcery_observer_add"
      [] OTHER -> "sorcery_object_register"

\* load_module up to the start of process_all_clusters, or to its decline
LoadModule(failAt, file, okRetr) ==
    /\ phase = "unloaded"
    /\ hist.loads < MaxLoads
    /\ IF failAt # 0
       THEN /\ kafka_sorcery' = FALSE
            /\ mod' = [mod EXCEPT !.observer = (@ \/ failAt = 6)]
            /\ hist' = [hist EXCEPT !.loads = @ + 1, !.declined = @ + 1,
                                    !.cause = DeclineCause(failAt)]
            /\ UNCHANGED <<cfg, phase, pc, todo, cur, w>>
       ELSE /\ kafka_sorcery' = TRUE
            /\ mod' = [mod EXCEPT !.sorceryRefs = @ + 1, !.observer = TRUE]
            /\ cfg' = file
            /\ phase' = "loading"
            /\ pc' = "clusters"
            /\ todo' = [todo EXCEPT !.clusters = IF okRetr THEN file.clusters ELSE {}]
            /\ hist' = [hist EXCEPT !.loads = @ + 1,
                                    !.passes = @ + 1,
                                    !.ret = 0,
                                    !.cret = 0,
                                    !.lastCfg = file,
                                    !.same = (hist.passes > 0
                                              /\ file = hist.lastCfg),
                                    !.reloadFailed = FALSE,
                                    !.cause = ""]
            /\ w' = StartPass(w)
            /\ UNCHANGED cur
    /\ UNCHANGED call

\* process_cluster retrieving the producers of every cluster, with no filter
ProcessCluster_NoFilter(c, okRetr) ==
    /\ pc = "clusters"
    /\ c \in todo.clusters
    /\ cur' = [cur EXCEPT !.cluster = c]
    /\ todo' = [todo EXCEPT !.clusters = @ \ {c},
                            !.producers = IF okRetr THEN DOMAIN cfg.producer
                                          ELSE {}]
    /\ pc' = "producers"
    /\ UNCHANGED <<cfg, phase, kafka_sorcery, mod, w, hist, call>>

\* process_all_clusters: the next cluster of the iterator; process_cluster
\* retrieves its producers
ProcessCluster(c, okRetr) ==
    /\ pc = "clusters"
    /\ c \in todo.clusters
    /\ cur' = [cur EXCEPT !.cluster = c]
    /\ todo' = [todo EXCEPT !.clusters = @ \ {c},
                            !.producers = IF okRetr
                                          THEN {p \in DOMAIN cfg.producer :
                                                  cfg.producer[p] = c}
                                          ELSE {}]
    /\ pc' = "producers"
    /\ UNCHANGED <<cfg, phase, kafka_sorcery, mod, w, hist>>
    /\ UNCHANGED call

\* process_producer returning 0 when new_kafka_producer returned NULL
ProcessProducer_ReturnsZero(p, okRetr, e) ==
    /\ pc = "producers"
    /\ p \in todo.producers
    /\ LET found == IF okRetr
                    THEN {t \in DOMAIN cfg.topic : cfg.topic[t].producer = p}
                    ELSE {}
           r == new_kafka_producer(w, ObjId(hist.passes, p), cur.cluster, p, e)
       IN  IF found = {} \/ r.producer = NULL
           THEN /\ hist' = [hist EXCEPT !.ret = 0]
                /\ todo' = [todo EXCEPT !.producers = @ \ {p}]
                /\ w' = IF found = {} THEN w ELSE r.w
                /\ UNCHANGED <<pc, cur>>
           ELSE /\ w' = r.w
                /\ cur' = [cur EXCEPT !.producer = p, !.kp = r.producer]
                /\ todo' = [todo EXCEPT !.producers = @ \ {p}, !.topics = found]
                /\ pc' = "topics"
                /\ UNCHANGED hist
    /\ UNCHANGED <<cfg, phase, kafka_sorcery, mod>>
    /\ UNCHANGED call

\* process_cluster leaving its producer loop when process_producer returned -1
ProcessProducer_LeavesLoop(p, okRetr, e) ==
    /\ pc = "producers"
    /\ p \in todo.producers
    /\ LET found == IF okRetr
                    THEN {t \in DOMAIN cfg.topic : cfg.topic[t].producer = p}
                    ELSE {}
           r == new_kafka_producer(w, ObjId(hist.passes, p), cur.cluster, p, e)
       IN  IF found = {}
           THEN /\ hist' = [hist EXCEPT !.ret = 0]
                /\ todo' = [todo EXCEPT !.producers = @ \ {p}]
                /\ UNCHANGED <<w, pc, cur>>
           ELSE IF r.producer = NULL
           THEN /\ hist' = [hist EXCEPT !.ret = -1]
                /\ todo' = [todo EXCEPT !.producers = {}]
                /\ w' = r.w
                /\ UNCHANGED <<pc, cur>>
           ELSE /\ w' = r.w
                /\ cur' = [cur EXCEPT !.producer = p, !.kp = r.producer]
                /\ todo' = [todo EXCEPT !.producers = @ \ {p}, !.topics = found]
                /\ pc' = "topics"
                /\ UNCHANGED hist
    /\ UNCHANGED <<cfg, phase, kafka_sorcery, mod>>
    /\ UNCHANGED call

\* process_producer up to its topic loop
ProcessProducer(p, okRetr, e) ==
    /\ pc = "producers"
    /\ p \in todo.producers
    /\ LET found == IF okRetr
                    THEN {t \in DOMAIN cfg.topic : cfg.topic[t].producer = p}
                    ELSE {}
           r == new_kafka_producer(w, ObjId(hist.passes, p), cur.cluster, p, e)
       IN  IF found = {}
           THEN /\ hist' = [hist EXCEPT !.ret = 0]
                /\ todo' = [todo EXCEPT !.producers = @ \ {p}]
                /\ UNCHANGED <<w, pc, cur>>
           ELSE IF r.producer = NULL
           THEN /\ hist' = [hist EXCEPT !.ret = -1]
                /\ todo' = [todo EXCEPT !.producers = @ \ {p}]
                /\ w' = r.w
                /\ UNCHANGED <<pc, cur>>
           ELSE /\ w' = r.w
                /\ cur' = [cur EXCEPT !.producer = p, !.kp = r.producer]
                /\ todo' = [todo EXCEPT !.producers = @ \ {p}, !.topics = found]
                /\ pc' = "topics"
                /\ UNCHANGED hist
    /\ UNCHANGED <<cfg, phase, kafka_sorcery, mod>>
    /\ UNCHANGED call

\* what the read through the NULL topic record does: the process is killed,
\* or the read yields some value and rd_kafka_produce is called with it
UbOutcomes == {"crash", "garbage"}

\* one round of the topic loop of process_producer
ProcessProducerTopic(t, e, ub) ==
    /\ pc = "topics"
    /\ t \in todo.topics
    /\ LET r == process_producer_topic(w, ObjId(hist.passes, t), cur.kp, t, e)
       IN  IF r.ub /\ ub = "crash"
           THEN /\ phase' = "crashed"
                /\ w' = r.w
                /\ UNCHANGED todo
           ELSE /\ w' = IF r.ub
                        THEN [r.w EXCEPT !.produces = @ + 1, !.nullProduce = TRUE]
                        ELSE r.w
                /\ todo' = [todo EXCEPT !.topics = @ \ {t}]
                /\ UNCHANGED phase
    /\ phase # "crashed"
    /\ UNCHANGED <<cfg, kafka_sorcery, mod, pc, cur, hist>>
    /\ UNCHANGED call

\* process_producer returning without its ao2_ref(producer, -1)
ProcessProducerDone_NoUnref ==
    /\ pc = "topics"
    /\ phase # "crashed"
    /\ todo.topics = {}
    /\ cur' = [cur EXCEPT !.kp = NULL]
    /\ hist' = [hist EXCEPT !.ret = 0]
    /\ pc' = "producers"
    /\ UNCHANGED <<cfg, phase, kafka_sorcery, mod, todo, w>>
    /\ UNCHANGED call

\* the end of process_producer: ao2_ref(producer, -1), return 0
ProcessProducerDone ==
    /\ pc = "topics"
    /\ phase # "crashed"
    /\ todo.topics = {}
    /\ w' = producer_unref(w, cur.kp)
    /\ cur' = [cur EXCEPT !.kp = NULL]
    /\ hist' = [hist EXCEPT !.ret = 0]
    /\ pc' = "producers"
    /\ UNCHANGED <<cfg, phase, kafka_sorcery, mod, todo>>
    /\ UNCHANGED call

\* process_cluster after the producers: retrieve the consumers
ProducersDone(okRetr) ==
    /\ pc = "producers"
    /\ todo.producers = {}
    /\ todo' = [todo EXCEPT !.consumers = IF okRetr
                                          THEN {k \in DOMAIN cfg.consumer :
                                                  cfg.consumer[k] = cur.cluster}
                                          ELSE {}]
    /\ pc' = "consumers"
    /\ UNCHANGED <<cfg, phase, kafka_sorcery, mod, cur, w, hist>>
    /\ UNCHANGED call

\* process_consumer: the configuration is built and destroyed, once before the
\* topics are retrieved and once more when there are topics;
\* process_consumer_topic, called for each topic, only logs
ProcessConsumer(k, conf1, okRetr, conf2) ==
    /\ pc = "consumers"
    /\ k \in todo.consumers
    /\ conf1 # 0 => (okRetr /\ conf2 = 0)
    /\ ~okRetr => conf2 = 0
    /\ LET b1 == build_rdkafka_cluster_config(w, cur.cluster, conf1)
           w1 == [b1.w EXCEPT !.confs = @ - 1]
           found == IF okRetr
                    THEN {t \in DOMAIN cfg.topic : cfg.topic[t].consumer = k}
                    ELSE {}
           b2 == build_rdkafka_cluster_config(w1, cur.cluster, conf2)
           w2 == [b2.w EXCEPT !.confs = @ - 1]
       IN  IF ~b1.config
           THEN /\ w' = b1.w
                /\ hist' = [hist EXCEPT !.cret = -1]
           ELSE IF found = {}
           THEN /\ w' = w1
                /\ hist' = [hist EXCEPT !.cret = 0]
           ELSE IF ~b2.config
           THEN /\ w' = b2.w
                /\ hist' = [hist EXCEPT !.cret = -1]
           ELSE /\ w' = [w2 EXCEPT !.consumerTopics = @ + Cardinality(found)]
                /\ hist' = [hist EXCEPT !.cret = 0]
    /\ todo' = [todo EXCEPT !.consumers = @ \ {k}]
    /\ UNCHANGED <<cfg, phase, kafka_sorcery, mod, pc, cur>>
    /\ UNCHANGED call

\* the end of process_cluster
ClusterDone ==
    /\ pc = "consumers"
    /\ todo.consumers = {}
    /\ pc' = "clusters"
    /\ UNCHANGED <<cfg, phase, kafka_sorcery, mod, todo, cur, w, hist>>
    /\ UNCHANGED call

\* load_module declining after process_all_clusters when a producer or a
\* consumer failed in it
LoadDone_DeclinesOnFailure ==
    /\ pc = "clusters"
    /\ phase = "loading"
    /\ todo.clusters = {}
    /\ pc' = "idle"
    /\ IF hist.ret = -1 \/ hist.cret = -1
       THEN /\ phase' = "unloaded"
            /\ hist' = [hist EXCEPT !.declined = @ + 1]
            /\ UNCHANGED mod
       ELSE /\ phase' = "loaded"
            /\ mod' = [mod EXCEPT !.cli = TRUE]
            /\ UNCHANGED hist
    /\ UNCHANGED <<cfg, kafka_sorcery, todo, cur, w, call>>

\* the end of process_all_clusters and of load_module: the CLI command is
\* registered, AST_MODULE_LOAD_SUCCESS
LoadDone ==
    /\ pc = "clusters"
    /\ phase = "loading"
    /\ todo.clusters = {}
    /\ mod' = [mod EXCEPT !.cli = TRUE]
    /\ phase' = "loaded"
    /\ pc' = "idle"
    /\ UNCHANGED <<cfg, kafka_sorcery, todo, cur, w, hist>>
    /\ UNCHANGED call

\* reload_module: ast_sorcery_reload reads kafka.conf again, the producer
\* observers (on_producer_created, _updated, _deleted, _loaded) only log.
\* applied: sorcery could make the objects of the file (the alloc functions
\* of the module return NULL without memory); when it could not, the objects
\* it holds stay
ReloadModule(file, applied) ==
    /\ phase = "loaded"
    /\ hist.reloads < MaxReloads
    /\ ~applied => file = cfg
    /\ cfg' = file
    /\ hist' = [hist EXCEPT !.reloads = @ + 1, !.reloadFailed = ~applied]
    /\ UNCHANGED <<phase, kafka_sorcery, mod, pc, todo, cur, w>>
    /\ UNCHANGED call

\* unload_module
UnloadModule ==
    /\ phase = "loaded"
    /\ mod' = [sorceryRefs |-> mod.sorceryRefs - 1, observer |-> FALSE,
               cli |-> FALSE]
    /\ kafka_sorcery' = FALSE
    /\ phase' = "unloaded"
    /\ hist' = [hist EXCEPT !.reloadFailed = FALSE]
    /\ UNCHANGED <<cfg, pc, todo, cur, w>>
    /\ UNCHANGED call

\* kafka.conf at a load: any configuration at the first load, the file as it
\* was read last at a later one (the file is edited before a reload only)
Files == IF cfg = EmptyConfig THEN Configs ELSE {cfg}

Next ==
    \/ \E f \in LoadOutcomes, file \in Files, ok \in BOOLEAN :
          LoadModule(f, file, ok)
    \/ \E c \in ClusterIds, ok \in BOOLEAN : ProcessCluster(c, ok)
    \/ \E p \in ProducerIds, ok \in BOOLEAN, e \in ProducerEnvs :
          ProcessProducer(p, ok, e)
    \/ \E t \in TopicIds, e \in TopicEnvs, ub \in UbOutcomes :
          ProcessProducerTopic(t, e, ub)
    \/ ProcessProducerDone
    \/ \E ok \in BOOLEAN : ProducersDone(ok)
    \/ \E k \in ConsumerIds, c1 \in ConfOutcomes, ok \in BOOLEAN,
          c2 \in ConfOutcomes : ProcessConsumer(k, c1, ok, c2)
    \/ ClusterDone
    \/ LoadDone
    \/ \E file \in Edits(cfg), applied \in BOOLEAN : ReloadModule(file, applied)
    \/ UnloadModule

Spec == Init /\ [][Next]_vars

\* ------------------------------------------- the functions on their own
\* new_kafka_producer for a producer of a cluster section with the fields cl,
\* the library deciding as l and e tell
CallNewKafkaProducer(cl, l, e) ==
    /\ e.conf = ConfOutcome(l)
    /\ call' = [op      |-> "new_kafka_producer",
                cluster |-> cl,
                passed  |-> ConfPassed(cl, l),
                error   |-> IF e.conf = 0 THEN "" ELSE ConfErrors[e.conf],
                made    |-> new_kafka_producer(EmptyWorld, ObjId(1, "P1"),
                                               "C1", "P1", e)]
    /\ UNCHANGED <<cfg, phase, kafka_sorcery, mod, pc, todo, cur, w, hist>>

\* process_producer for a producer with one topic, from new_kafka_producer
\* (every call of it succeeding) to ao2_ref(producer, -1)
CallProcessProducer(e, f, ub) ==
    LET made == new_kafka_producer(EmptyWorld, ObjId(1, "P1"), "C1", "P1",
                                   [conf |-> 0, alloc |-> TRUE, new |-> TRUE])
        r == process_producer_topic(made.w, ObjId(1, "T1"), made.producer,
                                    "T1", e)
        crashed == r.ub /\ ub = "crash"
    IN  /\ call' = [op       |-> "process_producer",
                    env      |-> e,
                    flush    |-> f.flush,
                    crashed  |-> crashed,
                    flush_ms |-> r.flush_ms,
                    logs     |-> process_producer_topic_logs(f),
                    before   |-> r.w,
                    after    |-> IF crashed THEN r.w
                                 ELSE producer_unref(r.w, made.producer)]
        /\ UNCHANGED <<cfg, phase, kafka_sorcery, mod, pc, todo, cur, w, hist>>

NextCall ==
    \/ \E cl \in ClusterRecs, e \in ProducerEnvs :
          \E l \in LibConfs(cl) : CallNewKafkaProducer(cl, l, e)
    \/ \E e \in TopicEnvs, f \in FlushEnvs, ub \in UbOutcomes :
          CallProcessProducer(e, f, ub)

SpecCall == Init /\ [][NextCall]_vars

\* ------------------------------------------------------------------ claims
Roles == {"producer", "consumer"}

\* the live rd_kafka_t of a cluster and a role
LiveOn(c, r) == {k \in w.clients : k.cluster = c /\ k.role = r}

\* the live rd_kafka_topic_t bound to the client of the kafka_producer id
BoundTo(id) == {h \in w.rktopics : h.rk = id}

\* the live rd_kafka_topic_t of a topic section
HandlesOf(t) == {h \in w.rktopics : h.topic = t}

\* C1: in every state each (cluster, role) pair has at most one live
\* rd_kafka_t, however many producers and topics name the cluster
C1_AtMostOneLive ==
    \A c \in ClusterIds, r \in Roles : Cardinality(LiveOn(c, r)) <= 1

\* two producers name cluster C1, both have a topic; the client of the first
\* was created and the client of the second is live
C1_TwoProducersOneCluster ==
    /\ w.creates = 2
    /\ cfg.producer["P1"] = "C1" /\ cfg.producer["P2"] = "C1"
    /\ Cardinality(LiveOn("C1", "producer")) = 1

\* C2: the reference count of a connection is the number of topic handles
\* bound to it, and the connection is destroyed at the release of the last of
\* them and not before: a connection with handles bound has as many references
\* as handles, and the client of every live topic handle is live
C2_RefcountIsBoundTopics ==
    /\ \A id \in DOMAIN w.producers :
          BoundTo(id) # {} => w.producers[id].ref = Cardinality(BoundTo(id))
    /\ \A h \in w.rktopics : \E k \in w.clients : k.id = h.rk

\* the first load ran with the one topic T1, of producer P1 on cluster C1, and
\* every library call of it succeeded
LoadedOnlyT1 ==
    /\ phase = "loaded"
    /\ hist.passes = 1
    /\ DOMAIN hist.lastCfg.topic = {"T1"}
    /\ w.creates = 1
    /\ w.produces = 1 /\ ~w.nullProduce

\* C3: with cluster C1, producer P1 and topic T1, after load exactly one
\* producer connection for C1 and one topic handle for T1 exist until the
\* configuration changes; once T1 is removed and reload has run, the topic
\* handle and the connection are destroyed
C3_EndToEnd ==
    LoadedOnlyT1 =>
        IF "T1" \in DOMAIN cfg.topic
        THEN /\ Cardinality(LiveOn("C1", "producer")) = 1
             /\ Cardinality(HandlesOf("T1")) = 1
        ELSE /\ LiveOn("C1", "producer") = {}
             /\ HandlesOf("T1") = {}

\* C4: process_all_clusters runs at load and at every reload, and after a
\* reload the live topic handles are those of the topics kafka.conf has then
C4_ReloadReconciles ==
    /\ hist.passes = (hist.loads - hist.declined) + hist.reloads
    /\ (phase = "loaded" /\ hist.reloads > 0) =>
          \A h \in w.rktopics : h.topic \in DOMAIN cfg.topic

\* the topic t was bound by the last pass and its section is still in
\* kafka.conf as it was then
PersistsBound(t) ==
    /\ t \in DOMAIN cfg.topic
    /\ t \in DOMAIN hist.lastCfg.topic
    /\ cfg.topic[t] = hist.lastCfg.topic[t]
    /\ \E h \in HandlesOf(t) : h.id.pass = hist.passes

\* C5: across a reload the old generation is torn down only after the new one
\* is live: a topic that persists unchanged keeps a live connection in every
\* state after the reload, and no client is destroyed twice
C5_NoZeroWindow ==
    /\ w.destroys <= w.creates
    /\ (phase = "loaded" /\ hist.reloads > 0) =>
          \A t \in TopicIds :
             PersistsBound(t) =>
                 \A h \in HandlesOf(t) : \E k \in w.clients : k.id = h.rk

\* C6: a pass of process_all_clusters that runs with the configuration of the
\* pass before it creates no client and destroys none
C6_SecondPassIdle ==
    hist.same => (w.creates = 0 /\ w.destroys = 0)

\* C7: a topic whose handle cannot be created never has its absent handle used
\* (rd_kafka_produce is not reached through the NULL record) and the other
\* topics of the producer are still processed
C7_BindFailureContained ==
    /\ ~w.nullProduce
    /\ phase # "crashed"

\* a round of the topic loop in which new_kafka_producer_topic returned NULL
BindFailed ==
    /\ pc = "topics" /\ pc' = "topics"
    /\ todo'.topics # todo.topics \/ phase' = "crashed"
    /\ w'.rktopics = w.rktopics

\* C8: when the creation of a topic handle fails, the connection has after the
\* failure the reference count it had before the bind attempt
C8_NoLeakedReference ==
    [][BindFailed =>
          /\ cur.kp \in DOMAIN w'.producers
          /\ w'.producers[cur.kp].ref = w.producers[cur.kp].ref]_vars

\* a bind attempt has failed and the connection it was made on is live
C8_BindFailedOnLive ==
    /\ pc = "topics"
    /\ w.nullProduce \/ phase = "crashed"
    /\ cur.kp \in DOMAIN w.producers
    /\ \E k \in w.clients : k.id = cur.kp

\* a step in which rd_kafka_new was called and failed
CreateFailed ==
    /\ w'.attempts = w.attempts + 1
    /\ w'.creates = w.creates

\* every struct kafka_producer holds a live client
NoHalfInitialized ==
    \A id \in DOMAIN w.producers :
        /\ w.producers[id].rd_kafka
        /\ \E k \in w.clients : k.id = id

\* C9: when rd_kafka_new fails the caller gets the error (NULL, and -1 from
\* process_producer), no connection object is kept, no client that was never
\* created is destroyed, and nothing of the failure stays behind
C9_FailedCreateLeavesNothing ==
    /\ [](NoHalfInitialized /\ w.nullDestroys = 0)
    /\ [][CreateFailed =>
             /\ hist'.ret = -1
             /\ cur'.kp = NULL
             /\ w'.producers = w.producers
             /\ w'.clients = w.clients
             /\ w'.confs = w.confs
             /\ w'.destroys = w.destroys]_vars

\* rd_kafka_new failed for one producer of cluster C1 and was called again,
\* with success, for the other producer of C1 in the same pass
C9_CreatedAfterFailure ==
    /\ w.attempts = 2 /\ w.creates = 1
    /\ hist.ret = -1
    /\ cfg.producer["P2"] = "C1"
    /\ LiveOn("C1", "producer") # {}

\* C10: when rd_kafka_new fails for a producer, process_producer binds none of
\* its topics, produces nothing and returns -1
C10_FailedCreateSkipsTopics ==
    [][CreateFailed =>
          /\ pc' = "producers"
          /\ todo'.topics = todo.topics
          /\ w'.topics = w.topics
          /\ w'.rktopics = w.rktopics
          /\ w'.produces = w.produces
          /\ hist'.ret = -1]_vars

\* rd_kafka_new failed for a producer that has topics, and the pass went on to
\* its end without a topic handle of this pass
C10_FailedCreateSeen ==
    /\ phase = "loaded"
    /\ w.attempts = 1 /\ w.creates = 0
    /\ hist.ret = -1
    /\ \E t \in DOMAIN cfg.topic : cfg.topic[t].producer # ""
    /\ \A h \in w.rktopics : h.id.pass # hist.passes

\* a step in which process_producer returned -1 to process_cluster
ProducerFailed ==
    /\ pc = "producers"
    /\ todo'.producers # todo.producers
    /\ hist'.ret = -1
    /\ pc' = "producers"

\* a step in which process_consumer returned -1 to process_cluster
ConsumerFailed ==
    /\ pc = "consumers"
    /\ todo'.consumers # todo.consumers
    /\ hist'.cret = -1

\* C11: a producer whose connection cannot be created (its cluster
\* configuration was rejected or rd_kafka_new failed) and a consumer that fails
\* take only themselves out of the pass: the other producers and consumers of
\* the cluster and the other clusters stay to be processed, and the pass ends
\* only when none is left
C11_SiblingsStillProcessed ==
    /\ [](phase = "loaded" =>
             /\ todo.clusters = {} /\ todo.producers = {}
             /\ todo.consumers = {} /\ todo.topics = {})
    /\ [][/\ ProducerFailed =>
                /\ \E p \in todo.producers :
                      todo'.producers = todo.producers \ {p}
                /\ todo'.clusters = todo.clusters
                /\ phase' = phase
          /\ ConsumerFailed =>
                /\ \E k \in todo.consumers :
                      todo'.consumers = todo.consumers \ {k}
                /\ todo'.clusters = todo.clusters
                /\ pc' = "consumers"
                /\ phase' = phase]_vars

\* producer P1 and consumer K1 of cluster C1 both failed, and cluster C2 was
\* processed after them in the same pass: the client of its producer is live
C11_NextClusterAfterFailures ==
    /\ hist.ret = -1 /\ hist.cret = -1
    /\ cur.cluster = "C2"
    /\ LiveOn("C2", "producer") # {}

\* the topic sections of the file of the last pass that name the producer p,
\* and those that name the consumer k
TopicsOfProducer(p) ==
    {t \in DOMAIN hist.lastCfg.topic : hist.lastCfg.topic[t].producer = p}

TopicsOfConsumer(k) ==
    {t \in DOMAIN hist.lastCfg.topic : hist.lastCfg.topic[t].consumer = k}

\* C12: a producer or consumer of a cluster that does not exist, a topic of a
\* producer or consumer that does not exist, and a producer or consumer with no
\* topic are skipped and are no error: no connection object and no topic handle
\* is made for them, and process_consumer returns 0 for a consumer without
\* topics
C12_UnboundSkippedSilently ==
    /\ \A id \in DOMAIN w.producers :
          /\ hist.lastCfg.producer[w.producers[id].producer] \in hist.lastCfg.clusters
          /\ TopicsOfProducer(w.producers[id].producer) # {}
    /\ \A h \in w.rktopics :
          h.id.pass = hist.passes =>
              hist.lastCfg.topic[h.topic].producer \in DOMAIN hist.lastCfg.producer
    /\ \A k \in DOMAIN hist.lastCfg.consumer :
          TopicsOfConsumer(k) = {} => hist.cret = 0

\* C13: for every consumer with a topic, the pass that processed its topics
\* has a consumer client on the cluster of the consumer and a topic handle of
\* the pass for each of its topics
C13_ConsumerBound ==
    \A k \in DOMAIN hist.lastCfg.consumer :
        (w.consumerTopics > 0 /\ TopicsOfConsumer(k) # {}) =>
            /\ LiveOn(hist.lastCfg.consumer[k], "consumer") # {}
            /\ \A t \in TopicsOfConsumer(k) :
                  \E h \in HandlesOf(t) : h.id.pass = hist.passes

\* C14: for a cluster whose broker list is empty, building the configuration
\* fails with an error, no field after brokers is handed to the library and
\* rd_kafka_new is not called
C14_EmptyBrokersRejected ==
    (call.op = "new_kafka_producer" /\ call.cluster.brokers = "") =>
        /\ call.error # ""
        /\ call.made.producer = NULL
        /\ call.made.w.attempts = 0
        /\ \A kv \in call.passed : kv[1] = "metadata.broker.list"

\* C15: a security protocol or a SASL mechanism that is not a listed value is
\* never handed to rd_kafka_conf_set, and building the configuration of a
\* cluster that has one reports an error
C15_TokensCheckedFirst ==
    call.op = "new_kafka_producer" =>
        /\ \A kv \in call.passed :
              /\ kv[1] = "security.protocol" => kv[2] \in SecurityProtocols
              /\ kv[1] = "sasl.mechanism" => kv[2] \in SaslMechanisms
        /\ (\/ call.cluster.security_protocol \notin SecurityProtocols
            \/ call.cluster.sasl_mechanism \notin SaslMechanisms) =>
              call.error # ""

\* the first of brokers, security protocol, SASL mechanism (1, 2, 3) whose
\* value is empty or not listed; 0 when there is none
FirstUnlisted(cl) ==
    IF \A i \in 1..3 : Listed(cl, i) THEN 0
    ELSE CHOOSE i \in 1..3 :
            ~Listed(cl, i) /\ \A j \in 1..(i - 1) : Listed(cl, j)

\* C16: with a configuration object at hand, building the configuration
\* either sets all five fields and reports nothing, or reports the first of
\* brokers, security protocol, SASL mechanism that is empty or not listed and
\* hands no later field to the library
C16_FirstInvalidFieldNamed ==
    (call.op = "new_kafka_producer" /\ call.error # ConfErrors[1]) =>
        LET f == FirstUnlisted(call.cluster)
        IN  IF f = 0
            THEN call.error = "" /\ Cardinality(call.passed) = 5
            ELSE /\ call.error = ConfErrors[f + 1]
                 /\ \A kv \in call.passed :
                       kv[1] \in {ConfKeys[j] : j \in 1..f}

\* C17: the client of a connection is flushed with a wait of FlushTimeoutMs
\* before the release that destroys it, and when the flush did not finish in
\* that time a line is logged and the client is destroyed all the same
C17_FlushedThenDestroyed ==
    (call.op = "process_producer" /\ ~call.crashed) =>
        /\ call.flush_ms = FlushTimeoutMs
        /\ call.before.clients # {}
        /\ call.after.clients = {} /\ call.after.destroys = 1
        /\ ~call.flush => "got error" \in call.logs

\* C18: after a reload that failed for the objects of kafka.conf, every topic
\* handle the last pass made is still there and the connection it was made on
\* is still live
C18_FailedReloadKeepsPrevious ==
    (phase = "loaded" /\ hist.reloadFailed) =>
        \A t \in TopicsOfProducer("P1") \cup TopicsOfProducer("P2") :
            \A h \in HandlesOf(t) :
                h.id.pass = hist.passes => \E k \in w.clients : k.id = h.rk

C20_DeclineOnlyOpenOrRegister ==
    hist.cause \in {"", "ast_sorcery_open", "sorcery_object_register"}

\* C20: load_module declines only when ast_sorcery_open fails, an object type
\* cannot be registered or the producer observer cannot be added, each of them
\* before any object is processed; once process_all_clusters has started, no
\* failure of a producer or a consumer takes the load back to a decline
C20_DeclineCauses ==
    /\ [](/\ hist.cause \in {"", "ast_sorcery_open", "sorcery_object_register",
                              "ast_sorcery_observer_add"}
          /\ phase \in {"loading", "loaded"} => hist.cause = "")
    /\ [][/\ phase = "loading" => phase' \in {"loading", "loaded", "crashed"}
          /\ hist'.declined # hist.declined =>
                /\ hist'.cause # ""
                /\ pc = "idle" /\ phase = "unloaded"
                /\ w' = w]_vars

\* a load went through although a producer of it failed, and the load after it
\* declined because the observer could not be added
C20_DeclinedForObserver ==
    /\ hist.cause = "ast_sorcery_observer_add"
    /\ hist.passes = 1
    /\ hist.ret = -1

C22_ConnectionLifecycle ==
    [][/\ \A k \in w'.clients \ w.clients :
             /\ k.id.pass = hist.passes
             /\ k.id.name \in todo.producers
       /\ CreateFailed => w'.clients = w.clients
       /\ \A k \in w.clients \ w'.clients : BoundTo(k.id) = {}]_vars

\* C23: no topic handle and no topic record outlives the connection it was
\* made on: the client of every live rd_kafka_topic_t is live, and the
\* producer record of every topic record is still there
C23_HandlesDieWithConnection ==
    /\ \A h \in w.rktopics : \E k \in w.clients : k.id = h.rk
    /\ \A id \in DOMAIN w.topics : w.topics[id].rk \in DOMAIN w.producers

\* new_kafka_producer_topic was called and rd_kafka_topic_new failed in it,
\* after the record was made the opaque of the topic configuration
TopicNewFailed ==
    /\ call.op = "process_producer"
    /\ call.env.alloc /\ call.env.conf /\ ~call.env.new

\* C24: when rd_kafka_topic_new fails after ao2_ref(topic, +1), the two
\* references of the record are released: the record is freed, no topic
\* handle exists or was destroyed for it, and the producer record and its
\* client are as they were
C24_FailedBindReleasedOnce ==
    TopicNewFailed =>
        /\ DOMAIN call.before.topics = {}
        /\ call.before.rktopics = {}
        /\ \A id \in DOMAIN call.before.producers :
              /\ call.before.producers[id].ref = 1
              /\ \E k \in call.before.clients : k.id = id

\* rd_kafka_topic_new failed on a live client and the NULL read that follows
\* did not end the process
C24_TopicNewFailedSeen ==
    /\ TopicNewFailed
    /\ ~call.crashed
    /\ call.before.clients # {}

C26_ConfigOwnedOnce == w.confs = 0

\* a pass in which rd_kafka_new failed on a built configuration and a consumer
\* with topics built and destroyed its two
C26_CallerDestroyed ==
    /\ w.attempts > w.creates
    /\ w.consumerTopics > 0
    /\ hist.ret = -1

\* C27: process_producer_topic logs the flush error exactly when
\* rd_kafka_flush did not return RD_KAFKA_RESP_ERR_NO_ERROR
C27_FlushErrorIffFailed ==
    (call.op = "process_producer" /\ ~call.crashed) =>
        ("got error" \in call.logs <=> ~call.flush)

\* C28: a pass creates clients and topic handles and calls rd_kafka_produce
\* for no topic
C28_NoProduceInPass == w.produces = 0

====
